---- MODULE Spec2Model ----
(***************************************************************************)
(* Model of the BabelDOC MCP server, src/babeldoc/mcp_server/server.py:    *)
(* the tool dispatcher call_tool, the handlers translate_pdf and           *)
(* get_translation_status, the path resolver and the environment reader.   *)
(*                                                                         *)
(* Python values are records [ty, v]: ty is the Python type ("absent" for  *)
(* a key that is not in the dict) and v the value written as a string.     *)
(* Strings are TLA+ strings, one character per code point; "@" stands for  *)
(* U+00E9 (e with acute, composed) and "~" for U+0301 (combining acute),   *)
(* so that NFC/NFD act on the model's strings as on the program's.         *)
(* The engine (babeldoc.format.pdf.high_level, OpenAITranslator,           *)
(* DocLayoutModel) is external: each of its calls either succeeds or       *)
(* raises, and async_translate yields any finite sequence of events.       *)
(***************************************************************************)
EXTENDS Integers, Sequences, FiniteSets, TLC

VARIABLES env, fs, rateLimiterQps, calls

vars == <<env, fs, rateLimiterQps, calls>>

\* ------------------------------------------------------------------ bounds
\* at most MaxArgs keys are present in an argument bag
MaxArgs == 2
\* at most MaxEnvSet environment variables are set at a time
MaxEnvSet == 2
\* async_translate yields at most MaxEvents events under Spec and at most
\* MaxStreamEvents events under SpecStream
MaxEvents == 1
MaxStreamEvents == 3

\* ----------------------------------------------------------- Python values
Absent == [ty |-> "absent", v |-> ""]
PyNone == [ty |-> "NoneType", v |-> ""]
PyStr(s) == [ty |-> "str", v |-> s]
PyInt(s) == [ty |-> "int", v |-> s]

\* bool(x) for the values of the model
Truthy(x) ==
    /\ x.ty \notin {"absent", "NoneType"}
    /\ ~(x.ty = "str" /\ x.v = "")
    /\ ~(x.ty = "int" /\ x.v = "0")

\* d.get(key): None when the key is missing
Get(x) == IF x.ty = "absent" THEN PyNone ELSE x
\* d.get(key, default)
GetOr(x, default) == IF x.ty = "absent" THEN default ELSE x

\* a or b
\* (mutant of PyOr: the right operand always wins)
PyOrRight(a, b) == b
PyOr(a, b) == IF Truthy(a) THEN a ELSE b

\* str(x) / f"{x}"
Fmt(x) == IF x.ty = "NoneType" THEN "None" ELSE x.v

\* ----------------------------------------------------------------- strings
Char(s, i) == SubSeq(s, i, i)

StartsWith(s, p) == Len(s) >= Len(p) /\ SubSeq(s, 1, Len(p)) = p

Contains(s, p) ==
    \E i \in 1..(Len(s) - Len(p) + 1) : SubSeq(s, i, i + Len(p) - 1) = p

\* index of the last occurrence of the character ch in s, 0 if none
LastIndexOf(s, ch) ==
    LET hits == {i \in 1..Len(s) : Char(s, i) = ch}
    IN  IF hits = {} THEN 0 ELSE CHOOSE i \in hits : \A j \in hits : j <= i

\* unicodedata.normalize("NFC", s) on the model's alphabet: e + U+0301 -> U+00E9
RECURSIVE NFC(_)
NFC(s) ==
    IF Len(s) = 0 THEN ""
    ELSE IF Len(s) >= 2 /\ SubSeq(s, 1, 2) = "e~"
         THEN "@" \o NFC(SubSeq(s, 3, Len(s)))
         ELSE Char(s, 1) \o NFC(SubSeq(s, 2, Len(s)))

\* unicodedata.normalize("NFD", s): U+00E9 -> e + U+0301
RECURSIVE NFD(_)
NFD(s) ==
    IF Len(s) = 0 THEN ""
    ELSE IF Char(s, 1) = "@"
         THEN "e~" \o NFD(SubSeq(s, 2, Len(s)))
         ELSE Char(s, 1) \o NFD(SubSeq(s, 2, Len(s)))

\* str.lower() on the model's alphabet
LowerChar(ch) ==
    CASE ch = "P" -> "p"
      [] ch = "D" -> "d"
      [] ch = "F" -> "f"
      [] OTHER -> ch

RECURSIVE Lower(_)
Lower(s) ==
    IF Len(s) = 0 THEN "" ELSE LowerChar(Char(s, 1)) \o Lower(SubSeq(s, 2, Len(s)))

\* json.dumps of a str (ensure_ascii): non-ASCII code points are escaped
JsonChar(ch) ==
    CASE ch = "@" -> "\\u00e9"
      [] ch = "~" -> "\\u0301"
      [] OTHER -> ch

RECURSIVE JsonEscape(_)
JsonEscape(s) ==
    IF Len(s) = 0 THEN "" ELSE JsonChar(Char(s, 1)) \o JsonEscape(SubSeq(s, 2, Len(s)))

\* json.dumps of a value
JsonValue(x) ==
    CASE x.ty = "str" -> "\"" \o JsonEscape(x.v) \o "\""
      [] x.ty = "NoneType" -> "null"
      [] OTHER -> x.v

\* ------------------------------------------------------------------- paths
\* pathlib on absolute POSIX path strings
PathParent(p) ==
    LET i == LastIndexOf(p, "/")
    IN  IF i = 0 THEN "." ELSE IF i = 1 THEN "/" ELSE SubSeq(p, 1, i - 1)

PathName(p) == SubSeq(p, LastIndexOf(p, "/") + 1, Len(p))

PathSuffix(p) ==
    LET name == PathName(p)
        i == LastIndexOf(name, ".")
    IN  IF i <= 1 \/ i = Len(name) THEN "" ELSE SubSeq(name, i, Len(name))

\* the filesystem: the paths that exist, and which of them are directories
PathExists(f, p) == p \in f.files \cup f.dirs

PathChildren(f, d) == {p \in f.files \cup f.dirs : p # d /\ PathParent(p) = d}

IsDir(f, p) == p \in f.dirs

\* the ancestors of p, p included, up to the root
RECURSIVE Ancestors(_)
Ancestors(p) == IF p = "/" \/ p = "." \/ p = "" THEN {} ELSE {p} \cup Ancestors(PathParent(p))

\* -------------------------------------------------- resolve_path (48-82)
Found(p) == [kind |-> "path", v |-> p]
NotFound == [kind |-> "none", v |-> ""]
Raised(e) == [kind |-> "raise", v |-> e]

\* (mutant of NameMatches: the scan compares the names as they are)
NameMatchesExact(item, target) == item = target

\* lines 75-80: the test that makes the directory scan return a child
NameMatches(item, target) ==
    LET item_name_nfc == NFC(item)
        item_name_nfd == NFD(item)
        target_name_nfc == NFC(target)
        target_name_nfd == NFD(target)
    IN  \/ item_name_nfc = target_name_nfc \/ item_name_nfd = target_name_nfd
        \/ item_name_nfc = target_name_nfd \/ item_name_nfd = target_name_nfc

\* (mutant of ResolveOutcomes: the NFC form is tried before the path as given)
ResolveOutcomesNfcFirst(f, file_path) ==
    IF file_path.ty # "str" THEN {Raised("TypeError")}
    ELSE LET path == file_path.v
             nfc_path == NFC(path)
             nfd_path == NFD(path)
             parent == PathParent(path)
         IN  IF PathExists(f, nfc_path) THEN {Found(nfc_path)}
             ELSE IF PathExists(f, path) THEN {Found(path)}
             ELSE IF PathExists(f, nfd_path) THEN {Found(nfd_path)}
             ELSE IF PathExists(f, parent)
                  THEN IF ~IsDir(f, parent) THEN {Raised("NotADirectoryError")}
                       ELSE LET hits == {item \in PathChildren(f, parent) :
                                            NameMatches(PathName(item), PathName(path))}
                            IN  IF hits = {} THEN {NotFound} ELSE {Found(item) : item \in hits}
                  ELSE {NotFound}

\* The outcomes of resolve_path_with_unicode_normalization(file_path) on the
\* filesystem f. Path() of a value that is no str raises TypeError; iterdir()
\* of a parent that is a file raises NotADirectoryError; iterdir() lists the
\* children in an order the program does not choose, so any matching child
\* can be the first.
ResolveOutcomes(f, file_path) ==
    IF file_path.ty # "str" THEN {Raised("TypeError")}
    ELSE LET path == file_path.v
             nfc_path == NFC(path)
             nfd_path == NFD(path)
             parent == PathParent(path)
         IN  IF PathExists(f, path) THEN {Found(path)}
             ELSE IF PathExists(f, nfc_path) THEN {Found(nfc_path)}
             ELSE IF PathExists(f, nfd_path) THEN {Found(nfd_path)}
             ELSE IF PathExists(f, parent)
                  THEN IF ~IsDir(f, parent) THEN {Raised("NotADirectoryError")}
                       ELSE LET hits == {item \in PathChildren(f, parent) :
                                            NameMatches(PathName(item), PathName(path))}
                            IN  IF hits = {} THEN {NotFound} ELSE {Found(item) : item \in hits}
                  ELSE {NotFound}

\* ------------------------------------------------- get_env_config (85-98)
EnvVars == {"OPENROUTER_API_KEY", "OPENROUTER_BASE_URL", "OPENROUTER_MODEL",
            "OPENAI_API_KEY", "OPENAI_BASE_URL", "OPENAI_MODEL"}

DefaultOpenRouterBaseUrl == PyStr("https://openrouter.ai/api/v1")
DefaultOpenRouterModel == PyStr("google/gemini-2.5-flash")
DefaultOpenAIModel == PyStr("gpt-4o-mini")

get_env_config(e) ==
    [openrouter_api_key |-> Get(e["OPENROUTER_API_KEY"]),
     openrouter_base_url |-> GetOr(e["OPENROUTER_BASE_URL"], DefaultOpenRouterBaseUrl),
     openrouter_model |-> GetOr(e["OPENROUTER_MODEL"], DefaultOpenRouterModel),
     openai_api_key |-> Get(e["OPENAI_API_KEY"]),
     openai_base_url |-> Get(e["OPENAI_BASE_URL"]),
     openai_model |-> GetOr(e["OPENAI_MODEL"], DefaultOpenAIModel)]

\* ------------------------------------------------------------- the inputs
\* The values an environment variable takes; an API key may be set and empty.
EnvValues(var) ==
    CASE var = "OPENROUTER_API_KEY" -> {Absent, PyStr(""), PyStr("sk-or")}
      [] var = "OPENAI_API_KEY" -> {Absent, PyStr(""), PyStr("sk-oa")}
      [] var = "OPENROUTER_MODEL" -> {Absent, PyStr("env-or-model")}
      [] var = "OPENAI_MODEL" -> {Absent, PyStr("env-oa-model")}
      [] var = "OPENROUTER_BASE_URL" -> {Absent, PyStr("http://or.test")}
      [] var = "OPENAI_BASE_URL" -> {Absent, PyStr("http://oa.test")}

NumSet(e) == Cardinality({var \in EnvVars : e[var].ty # "absent"})

Envs == {e \in [OPENROUTER_API_KEY : EnvValues("OPENROUTER_API_KEY"),
                 OPENROUTER_BASE_URL : EnvValues("OPENROUTER_BASE_URL"),
                 OPENROUTER_MODEL : EnvValues("OPENROUTER_MODEL"),
                 OPENAI_API_KEY : EnvValues("OPENAI_API_KEY"),
                 OPENAI_BASE_URL : EnvValues("OPENAI_BASE_URL"),
                 OPENAI_MODEL : EnvValues("OPENAI_MODEL")] :
            NumSet(e) <= MaxEnvSet}

\* The filesystem at start: /d holds a PDF, a PDF whose name is stored
\* decomposed (NFD), and a text file.
InitFs == [dirs |-> {"/", "/d"},
           files |-> {"/d/a.pdf", "/d/cafe~.pdf", "/d/n.txt"}]

ArgKeys == {"input_file", "output_dir", "lang_in", "lang_out", "service", "model", "qps"}

\* The values of each argument of translate_pdf (the pass-through options pages,
\* no_dual, no_mono and watermark are only copied into the job request).
ArgValues(key) ==
    CASE key = "input_file" ->
            {Absent, PyStr(""), PyInt("42"), PyStr("/d/a.pdf"), PyStr("/d/caf@.pdf"),
             PyStr("/d/n.txt"), PyStr("/d/zz.pdf"), PyStr("/d/n.txt/x.pdf"),
             PyStr("/nodir/a.pdf")}
      [] key = "output_dir" -> {Absent, PyStr(""), PyStr("/d")}
      [] key = "lang_in" -> {Absent, PyStr("fr")}
      [] key = "lang_out" -> {Absent, PyStr("vi")}
      [] key = "service" -> {Absent, PyStr("openrouter"), PyStr("openai"), PyStr("bogus")}
      [] key = "model" -> {Absent, PyStr(""), PyStr("m1")}
      [] key = "qps" -> {Absent, PyInt("8")}

NumPresent(a) == Cardinality({key \in ArgKeys : a[key].ty # "absent"})

ArgBags == {a \in [input_file : ArgValues("input_file"),
                    output_dir : ArgValues("output_dir"),
                    lang_in : ArgValues("lang_in"),
                    lang_out : ArgValues("lang_out"),
                    service : ArgValues("service"),
                    model : ArgValues("model"),
                    qps : ArgValues("qps")] :
               NumPresent(a) <= MaxArgs}

EmptyArgs == [key \in ArgKeys |-> Absent]

ToolNames == {"translate_pdf", "get_translation_status", "translate", ""}

\* The calls the host makes. The handlers other than translate_pdf never read
\* their arguments: they are called with the empty bag and with one input_file.
Requests ==
    {<<"translate_pdf", a>> : a \in ArgBags}
    \cup {<<name, a>> : name \in ToolNames \ {"translate_pdf"},
                        a \in {EmptyArgs, [EmptyArgs EXCEPT !.input_file = PyStr("/d/a.pdf")]}}

\* the calls of SpecStream: translate_pdf on a PDF that exists, default options
StreamRequests ==
    {<<"translate_pdf", [EmptyArgs EXCEPT !.input_file = f, !.service = s]>> :
        f \in {PyStr("/d/a.pdf"), PyStr("/d/caf@.pdf")},
        s \in {Absent, PyStr("openai")}}

\* the environments of SpecStream: both API keys are set
StreamEnvs == {e \in Envs : /\ Truthy(e["OPENROUTER_API_KEY"])
                            /\ Truthy(e["OPENAI_API_KEY"])}

\* the host's calls; under Spec they are served one at a time
CallIds == {1, 2}

\* ------------------------------------------------ the engine's event stream
NoKeys == [type |-> "", error |-> Absent, translate_result |-> Absent,
           stage |-> Absent, stage_current |-> Absent, stage_total |-> Absent]

ProgressEvents ==
    {[NoKeys EXCEPT !.type = "progress_update", !.stage = PyStr("translate"),
                    !.stage_current = PyInt("1"), !.stage_total = PyInt("2")]}

ErrorEvents ==
    {[NoKeys EXCEPT !.type = "error", !.error = x] :
        x \in {Absent, PyStr(""), PyStr("boom"), PyStr("bang")}}

FinishEvents ==
    {[NoKeys EXCEPT !.type = "finish", !.translate_result = x] :
        x \in {PyNone, PyStr("res")}}

\* the events of SpecStream: every payload shape
StreamEvents == ProgressEvents \cup ErrorEvents \cup FinishEvents

\* the events of Spec: one event of each type
Events == {ev \in StreamEvents :
              \/ ev.type = "progress_update"
              \/ ev.error = PyStr("boom")
              \/ ev.translate_result = PyStr("res")}

\* translator.token_count / prompt_token_count / completion_token_count
TokenUsages == {[total |-> "0", prompt |-> "0", completion |-> "0"],
                [total |-> "30", prompt |-> "20", completion |-> "10"]}

\* the engine calls of the try block before the stream, in program order
EngineSteps == <<"init", "OpenAITranslator", "set_translate_rate_limiter",
                 "load_onnx", "mkdir", "TranslationConfig">>

\* ------------------------------------------------------------ a call's state
\* pc: "idle", "STREAMING" (suspended in the async for), "TERMINAL" (a result
\* was returned), "RAISED" (an exception left call_tool). stages: the states of
\* the job the call went through; engine: the engine calls made, in order;
\* events: the events the stream yielded so far. The other fields are the
\* locals of translate_pdf.
IdleCall ==
    [pc |-> "idle", name |-> "", arguments |-> EmptyArgs, stages |-> <<>>,
     input_path |-> "",
     service |-> PyNone, lang_in |-> PyNone, lang_out |-> PyNone, qps |-> PyNone,
     output_dir |-> PyNone, api_key |-> PyNone, model |-> PyNone, base_url |-> PyNone,
     engine |-> <<>>, events |-> <<>>, progress_info |-> <<>>,
     translation_error |-> PyNone, result_info |-> PyNone,
     site |-> "", result |-> "", raised |-> ""]

\* a CallToolResult with one TextContent, returned by the statement `site`
Returned(call, site, text) ==
    [call EXCEPT !.pc = "TERMINAL", !.stages = Append(@, "TERMINAL"),
                 !.site = site, !.result = text]

\* an exception that leaves translate_pdf and call_tool
Escaped(call, e) == [call EXCEPT !.pc = "RAISED", !.raised = e]

\* the job of the call enters the state st
Enter(call, st) == [call EXCEPT !.pc = st, !.stages = Append(@, st)]

Init ==
    /\ env \in Envs
    /\ fs = InitFs
    /\ rateLimiterQps = PyNone
    /\ calls = [c \in CallIds |-> IdleCall]

\* ------------------------------------------- get_translation_status (191-227)
JsonBool(b) == IF b THEN "true" ELSE "false"

SupportedLanguages ==
    <<"en (English)", "zh (Chinese)", "vi (Vietnamese)", "ja (Japanese)",
      "ko (Korean)", "es (Spanish)", "fr (French)", "de (German)",
      "pt (Portuguese)", "ru (Russian)", "ar (Arabic)", "th (Thai)",
      "id (Indonesian)">>

RECURSIVE JsonStringList(_, _)
JsonStringList(items, i) ==
    IF i > Len(items) THEN ""
    ELSE "\n    \"" \o items[i] \o "\"" \o (IF i < Len(items) THEN "," ELSE "")
         \o JsonStringList(items, i + 1)

\* (mutant of StatusText: the key is reported in place of the flag)
StatusTextWithKey(config) ==
    "{\n  \"service\": \"BabelDOC MCP Server\""
    \o ",\n  \"version\": \"1.0.0\""
    \o ",\n  \"openrouter_configured\": " \o JsonValue(config.openrouter_api_key)
    \o ",\n  \"openrouter_model\": " \o JsonValue(config.openrouter_model)
    \o ",\n  \"openrouter_base_url\": " \o JsonValue(config.openrouter_base_url)
    \o ",\n  \"openai_configured\": " \o JsonValue(config.openai_api_key)
    \o ",\n  \"openai_model\": " \o JsonValue(config.openai_model)
    \o ",\n  \"supported_languages\": [" \o JsonStringList(SupportedLanguages, 1)
    \o "\n  ]\n}"

StatusText(config) ==
    "{\n  \"service\": \"BabelDOC MCP Server\""
    \o ",\n  \"version\": \"1.0.0\""
    \o ",\n  \"openrouter_configured\": " \o JsonBool(Truthy(config.openrouter_api_key))
    \o ",\n  \"openrouter_model\": " \o JsonValue(config.openrouter_model)
    \o ",\n  \"openrouter_base_url\": " \o JsonValue(config.openrouter_base_url)
    \o ",\n  \"openai_configured\": " \o JsonBool(Truthy(config.openai_api_key))
    \o ",\n  \"openai_model\": " \o JsonValue(config.openai_model)
    \o ",\n  \"supported_languages\": [" \o JsonStringList(SupportedLanguages, 1)
    \o "\n  ]\n}"

get_translation_status(e, call) ==
    Returned(call, "status", StatusText(get_env_config(e)))

\* ------------------------------------------------- translate_pdf (230-456)
\* lines 232-250: input_file is read and resolved, the suffix is checked. The
\* set of the states the call can be in after them.
PathStage(f, call) ==
    LET input_file == Get(call.arguments.input_file)
    IN  IF ~Truthy(input_file)
        THEN {Returned(call, "missing_input", "Error: input_file is required")}
        ELSE {IF out.kind = "raise" THEN Escaped(call, out.v)
              ELSE IF out.kind = "none"
                   THEN Returned(call, "not_found",
                                 "Error: File not found: " \o Fmt(input_file))
              ELSE IF Lower(PathSuffix(out.v)) # ".pdf"
                   THEN Returned(call, "not_pdf", "Error: File must be a PDF")
              ELSE [Enter(call, "PATH_RESOLVED") EXCEPT !.input_path = out.v] :
                 out \in ResolveOutcomes(f, input_file)}

\* lines 253-299: the configuration of the call, from its arguments and the
\* environment; ok = FALSE and the error text when the function returns early
\* (mutant of ServiceConfig: an unknown service falls back to openrouter)
ServiceConfigFallback(arguments, config, input_path) ==
    LET service == GetOr(arguments.service, PyStr("openrouter"))
        common == [ok |-> TRUE, site |-> "", error |-> "",
                   service |-> service,
                   lang_in |-> GetOr(arguments.lang_in, PyStr("en")),
                   lang_out |-> GetOr(arguments.lang_out, PyStr("zh")),
                   qps |-> GetOr(arguments.qps, PyInt("4")),
                   output_dir |-> PyOr(Get(arguments.output_dir),
                                       PyStr(PathParent(input_path))),
                   api_key |-> PyNone, model |-> PyNone, base_url |-> PyNone]
    IN  IF service = PyStr("openai")
        THEN IF ~Truthy(config.openai_api_key)
             THEN [common EXCEPT !.ok = FALSE, !.site = "missing_key", !.error =
                      "Error: OPENAI_API_KEY environment variable not set"]
             ELSE [common EXCEPT !.api_key = config.openai_api_key,
                      !.model = PyOr(Get(arguments.model), config.openai_model),
                      !.base_url = config.openai_base_url]
        ELSE IF ~Truthy(config.openrouter_api_key)
             THEN [common EXCEPT !.ok = FALSE, !.site = "missing_key", !.error =
                      "Error: OPENROUTER_API_KEY environment variable not set"]
             ELSE [common EXCEPT !.api_key = config.openrouter_api_key,
                      !.model = PyOr(Get(arguments.model), config.openrouter_model),
                      !.base_url = config.openrouter_base_url]

\* (mutant of ServiceConfig: a provider without a key borrows the key of the
\* other provider)
ServiceConfigAnyKey(arguments, config, input_path) ==
    LET service == GetOr(arguments.service, PyStr("openrouter"))
        anyKey == IF service = PyStr("openai")
                  THEN PyOr(config.openai_api_key, config.openrouter_api_key)
                  ELSE PyOr(config.openrouter_api_key, config.openai_api_key)
        common == [ok |-> TRUE, site |-> "", error |-> "",
                   service |-> service,
                   lang_in |-> GetOr(arguments.lang_in, PyStr("en")),
                   lang_out |-> GetOr(arguments.lang_out, PyStr("zh")),
                   qps |-> GetOr(arguments.qps, PyInt("4")),
                   output_dir |-> PyOr(Get(arguments.output_dir),
                                       PyStr(PathParent(input_path))),
                   api_key |-> PyNone, model |-> PyNone, base_url |-> PyNone]
    IN  IF service = PyStr("openrouter")
        THEN IF ~Truthy(anyKey)
             THEN [common EXCEPT !.ok = FALSE, !.site = "missing_key", !.error =
                      "Error: OPENROUTER_API_KEY environment variable not set"]
             ELSE [common EXCEPT !.api_key = anyKey,
                      !.model = PyOr(Get(arguments.model), config.openrouter_model),
                      !.base_url = config.openrouter_base_url]
        ELSE IF service = PyStr("openai")
        THEN IF ~Truthy(anyKey)
             THEN [common EXCEPT !.ok = FALSE, !.site = "missing_key", !.error =
                      "Error: OPENAI_API_KEY environment variable not set"]
             ELSE [common EXCEPT !.api_key = anyKey,
                      !.model = PyOr(Get(arguments.model), config.openai_model),
                      !.base_url = config.openai_base_url]
        ELSE [common EXCEPT !.ok = FALSE, !.site = "unknown_service", !.error =
                 "Error: Unknown service: " \o Fmt(service)
                 \o ". Use 'openrouter' or 'openai'"]

ServiceConfig(arguments, config, input_path) ==
    LET service == GetOr(arguments.service, PyStr("openrouter"))
        common == [ok |-> TRUE, site |-> "", error |-> "",
                   service |-> service,
                   lang_in |-> GetOr(arguments.lang_in, PyStr("en")),
                   lang_out |-> GetOr(arguments.lang_out, PyStr("zh")),
                   qps |-> GetOr(arguments.qps, PyInt("4")),
                   output_dir |-> PyOr(Get(arguments.output_dir),
                                       PyStr(PathParent(input_path))),
                   api_key |-> PyNone, model |-> PyNone, base_url |-> PyNone]
    IN  IF service = PyStr("openrouter")
        THEN IF ~Truthy(config.openrouter_api_key)
             THEN [common EXCEPT !.ok = FALSE, !.site = "missing_key", !.error =
                      "Error: OPENROUTER_API_KEY environment variable not set"]
             ELSE [common EXCEPT !.api_key = config.openrouter_api_key,
                      !.model = PyOr(Get(arguments.model), config.openrouter_model),
                      !.base_url = config.openrouter_base_url]
        ELSE IF service = PyStr("openai")
        THEN IF ~Truthy(config.openai_api_key)
             THEN [common EXCEPT !.ok = FALSE, !.site = "missing_key", !.error =
                      "Error: OPENAI_API_KEY environment variable not set"]
             ELSE [common EXCEPT !.api_key = config.openai_api_key,
                      !.model = PyOr(Get(arguments.model), config.openai_model),
                      !.base_url = config.openai_base_url]
        ELSE [common EXCEPT !.ok = FALSE, !.site = "unknown_service", !.error =
                 "Error: Unknown service: " \o Fmt(service)
                 \o ". Use 'openrouter' or 'openai'"]

ConfigStage(e, call) ==
    LET cfg == ServiceConfig(call.arguments, get_env_config(e), call.input_path)
    IN  IF ~cfg.ok THEN Returned(call, cfg.site, cfg.error)
        ELSE [Enter(call, "CONFIG_RESOLVED") EXCEPT
                 !.service = cfg.service, !.lang_in = cfg.lang_in,
                 !.lang_out = cfg.lang_out, !.qps = cfg.qps,
                 !.output_dir = cfg.output_dir, !.api_key = cfg.api_key,
                 !.model = cfg.model, !.base_url = cfg.base_url]

\* lines 452-456: the except clause of translate_pdf
\* (mutant of FaultText: the exception text without the tag)
FaultTextUntagged(message) == message

FaultText(message) == "Translation failed: " \o message

\* (mutant of Caught: no except clause, the exception leaves translate_pdf)
Uncaught(call, message) == Escaped(call, message)

Caught(call, message) == Returned(call, "fault", FaultText(message))

\* Path(output_dir).mkdir(parents=True, exist_ok=True) raises when the path or
\* one of its ancestors exists and is no directory
MkdirRaises(f, dir) == \E p \in Ancestors(dir) : p \in f.files

\* (mutant of Mkdir: nothing is created)
MkdirSkipped(f, dir) == f

Mkdir(f, dir) == [f EXCEPT !.dirs = f.dirs \cup Ancestors(dir)]

StepIndex(step) == CHOOSE i \in 1..Len(EngineSteps) : EngineSteps[i] = step

NoFault == Len(EngineSteps) + 1

\* the engine call that raises, by index (NoFault: none)
Faults == 1..NoFault

\* (mutant of EngineStage: the output directory is created on entry, before
\* the engine calls)
EngineStageEagerMkdir(f, limiter, call, fault) ==
    LET dir == Fmt(call.output_dir)
        mkdirAt == StepIndex("mkdir")
        stop == IF MkdirRaises(f, dir) /\ fault > mkdirAt THEN mkdirAt ELSE fault
        made == SubSeq(EngineSteps, 1, IF stop = NoFault THEN Len(EngineSteps) ELSE stop)
        invoked == [call EXCEPT !.engine = made]
    IN  [call |-> IF stop = NoFault THEN Enter(invoked, "ENGINE_INVOKED")
                  ELSE Caught(invoked, EngineSteps[stop] \o " raised"),
         fs |-> IF MkdirRaises(f, dir) THEN f ELSE Mkdir(f, dir),
         limiter |-> IF stop > StepIndex("set_translate_rate_limiter")
                     THEN call.qps ELSE limiter]

\* lines 301-392: engine init, translator, rate limiter, layout model, output
\* directory, job request. `fault` is the index of the engine call that raises;
\* mkdir also raises when the filesystem says so. The call, the filesystem and
\* the rate limiter after them.
EngineStage(f, limiter, call, fault) ==
    LET dir == Fmt(call.output_dir)
        mkdirAt == StepIndex("mkdir")
        stop == IF MkdirRaises(f, dir) /\ fault > mkdirAt THEN mkdirAt ELSE fault
        made == SubSeq(EngineSteps, 1, IF stop = NoFault THEN Len(EngineSteps) ELSE stop)
        invoked == [call EXCEPT !.engine = made]
    IN  [call |-> IF stop = NoFault THEN Enter(invoked, "ENGINE_INVOKED")
                  ELSE Caught(invoked, EngineSteps[stop] \o " raised"),
         fs |-> IF stop > mkdirAt THEN Mkdir(f, dir) ELSE f,
         limiter |-> IF stop > StepIndex("set_translate_rate_limiter")
                     THEN call.qps ELSE limiter]

\* lines 395-401: the accumulators are reset, async_translate is called and
\* the coroutine suspends until the stream yields
StreamStage(call) ==
    [Enter(call, "STREAMING") EXCEPT
        !.engine = Append(@, "async_translate"),
        !.progress_info = <<>>, !.translation_error = PyNone, !.result_info = PyNone]

\* translate_pdf up to its first suspension: the coroutine runs lines 232-401
\* without yielding control, each stage entered only when the one before it
\* did not return. The set of [call, fs, limiter] it can end in.
AfterEngine(r) ==
    IF r.call.pc # "ENGINE_INVOKED" THEN r ELSE [r EXCEPT !.call = StreamStage(r.call)]

AfterConfig(f, limiter, q) ==
    IF q.pc # "CONFIG_RESOLVED" THEN {[call |-> q, fs |-> f, limiter |-> limiter]}
    ELSE {AfterEngine(EngineStage(f, limiter, q, fault)) : fault \in Faults}

AfterPath(e, f, limiter, p) ==
    IF p.pc # "PATH_RESOLVED" THEN {[call |-> p, fs |-> f, limiter |-> limiter]}
    ELSE AfterConfig(f, limiter, ConfigStage(e, p))

translate_pdf(e, f, limiter, call) ==
    UNION {AfterPath(e, f, limiter, p) : p \in PathStage(f, Enter(call, "START"))}

\* --------------------------------------------------------- call_tool (178-188)
\* (mutant of Route: every name is routed to translate_pdf)
RouteAll(name) == "translate_pdf"

Route(name) ==
    IF name = "translate_pdf" THEN "translate_pdf"
    ELSE IF name = "get_translation_status" THEN "get_translation_status"
    ELSE "unknown"

UnknownToolText(name) == "Unknown tool: " \o name

\* the outcomes of call_tool(name, arguments) up to the first suspension
Dispatch(e, f, limiter, call) ==
    IF Route(call.name) = "translate_pdf" THEN translate_pdf(e, f, limiter, call)
    ELSE IF Route(call.name) = "get_translation_status"
    THEN {[call |-> get_translation_status(e, call), fs |-> f, limiter |-> limiter]}
    ELSE {[call |-> Returned(call, "unknown_tool", UnknownToolText(call.name)),
           fs |-> f, limiter |-> limiter]}

\* The host delivers one call and call_tool runs until it returns, raises or
\* suspends on the event stream. Under Spec the host delivers one call at a time.
CallTool(c, name, arguments) ==
    /\ \A d \in CallIds : calls[d].pc = "idle"
    /\ c = 1
    /\ \E out \in Dispatch(env, fs, rateLimiterQps,
                           [IdleCall EXCEPT !.name = name, !.arguments = arguments]) :
           /\ calls' = [calls EXCEPT ![c] = out.call]
           /\ fs' = out.fs
           /\ rateLimiterQps' = out.limiter
    /\ UNCHANGED env

\* lines 402-410: the body of the async for loop, on one event
\* (mutant of Consume: an error event ends the loop and is reported at once)
ConsumeStopsAtError(call, event) ==
    IF event.type = "progress_update"
    THEN [call EXCEPT !.progress_info = Append(@,
             Fmt(GetOr(event.stage, PyStr("unknown"))) \o ": "
             \o Fmt(GetOr(event.stage_current, PyInt("0"))) \o "/"
             \o Fmt(GetOr(event.stage_total, PyInt("100"))))]
    ELSE IF event.type = "error"
    THEN Returned([call EXCEPT !.translation_error =
                      GetOr(event.error, PyStr("Unknown error"))],
                  "engine_error",
                  "Translation error: " \o Fmt(GetOr(event.error, PyStr("Unknown error"))))
    ELSE IF event.type = "finish"
    THEN [call EXCEPT !.result_info = Get(event.translate_result)]
    ELSE call

\* (mutant of Consume: a progress event starts the accumulators afresh)
ConsumeProgressResets(call, event) ==
    IF event.type = "progress_update"
    THEN [call EXCEPT !.progress_info = Append(@,
             Fmt(GetOr(event.stage, PyStr("unknown"))) \o ": "
             \o Fmt(GetOr(event.stage_current, PyInt("0"))) \o "/"
             \o Fmt(GetOr(event.stage_total, PyInt("100")))),
                      !.translation_error = PyNone, !.result_info = PyNone]
    ELSE IF event.type = "error"
    THEN [call EXCEPT !.translation_error = GetOr(event.error, PyStr("Unknown error"))]
    ELSE IF event.type = "finish"
    THEN [call EXCEPT !.result_info = Get(event.translate_result)]
    ELSE call

\* (mutant of Consume: the first finish event wins)
ConsumeFirstFinish(call, event) ==
    IF event.type = "error"
    THEN [call EXCEPT !.translation_error = GetOr(event.error, PyStr("Unknown error"))]
    ELSE IF event.type = "finish" /\ call.result_info = PyNone
    THEN [call EXCEPT !.result_info = Get(event.translate_result)]
    ELSE call

Consume(call, event) ==
    IF event.type = "progress_update"
    THEN [call EXCEPT !.progress_info = Append(@,
             Fmt(GetOr(event.stage, PyStr("unknown"))) \o ": "
             \o Fmt(GetOr(event.stage_current, PyInt("0"))) \o "/"
             \o Fmt(GetOr(event.stage_total, PyInt("100"))))]
    ELSE IF event.type = "error"
    THEN [call EXCEPT !.translation_error = GetOr(event.error, PyStr("Unknown error"))]
    ELSE IF event.type = "finish"
    THEN [call EXCEPT !.result_info = Get(event.translate_result)]
    ELSE call

\* the stream yields one event and the loop body runs on it
ConsumeEvent(c, event, max) ==
    /\ calls[c].pc = "STREAMING"
    /\ Len(calls[c].events) < max
    /\ calls' = [calls EXCEPT ![c] =
           [Consume(@, event) EXCEPT !.events = Append(@, event)]]
    /\ UNCHANGED <<env, fs, rateLimiterQps>>

\* the stream raises instead of yielding: the except clause answers
StreamRaise(c) ==
    /\ calls[c].pc = "STREAMING"
    /\ calls' = [calls EXCEPT ![c] = Caught(@, "async_translate raised")]
    /\ UNCHANGED <<env, fs, rateLimiterQps>>

\* lines 424-438: the success record, json.dumps(result, indent=2)
SuccessText(call, usage) ==
    "{\n  \"status\": \"success\""
    \o ",\n  \"input_file\": " \o JsonValue(PyStr(call.input_path))
    \o ",\n  \"output_dir\": " \o JsonValue(PyStr(Fmt(call.output_dir)))
    \o ",\n  \"lang_in\": " \o JsonValue(call.lang_in)
    \o ",\n  \"lang_out\": " \o JsonValue(call.lang_out)
    \o ",\n  \"service\": " \o JsonValue(call.service)
    \o ",\n  \"model\": " \o JsonValue(call.model)
    \o ",\n  \"result\": " \o JsonValue(PyStr(Fmt(call.result_info)))
    \o ",\n  \"token_usage\": {"
    \o "\n    \"total_tokens\": " \o usage.total
    \o ",\n    \"prompt_tokens\": " \o usage.prompt
    \o ",\n    \"completion_tokens\": " \o usage.completion
    \o "\n  }\n}"

NoResultText == "Translation completed but no result information available"

\* lines 412-450: the result once the stream is exhausted
\* (mutant of Reduce: a stream without a result is reported as a success)
ReduceDefaultSuccess(call, usage) ==
    IF Truthy(call.translation_error)
    THEN Returned(call, "engine_error",
                  "Translation error: " \o Fmt(call.translation_error))
    ELSE Returned(call, "success", SuccessText(call, usage))

Reduce(call, usage) ==
    IF Truthy(call.translation_error)
    THEN Returned(call, "engine_error",
                  "Translation error: " \o Fmt(call.translation_error))
    ELSE IF Truthy(call.result_info)
    THEN Returned(call, "success", SuccessText(call, usage))
    ELSE Returned(call, "no_result", NoResultText)

\* the stream is exhausted: the loop ends and the result is built
StreamExhausted(c, usage) ==
    /\ calls[c].pc = "STREAMING"
    /\ calls' = [calls EXCEPT ![c] = Reduce(@, usage)]
    /\ UNCHANGED <<env, fs, rateLimiterQps>>

\* the host takes the result (or the transport the exception)
Return(c) ==
    /\ calls[c].pc \in {"TERMINAL", "RAISED"}
    /\ calls' = [calls EXCEPT ![c] = IdleCall]
    /\ UNCHANGED <<env, fs, rateLimiterQps>>

\* the environment of the process changes between two calls
SetEnv(e) ==
    /\ \A d \in CallIds : calls[d].pc = "idle"
    /\ e # env
    /\ env' = e
    /\ UNCHANGED <<fs, rateLimiterQps, calls>>

Next ==
    \/ \E c \in CallIds, req \in Requests : CallTool(c, req[1], req[2])
    \/ \E c \in CallIds, event \in Events : ConsumeEvent(c, event, MaxEvents)
    \/ \E c \in CallIds : StreamRaise(c)
    \/ \E c \in CallIds, usage \in TokenUsages : StreamExhausted(c, usage)
    \/ \E c \in CallIds : Return(c)
    \/ \E e \in Envs : SetEnv(e)

Spec == Init /\ [][Next]_vars

\* The reduction of the event stream: calls that reach the engine, every
\* payload shape, longer streams.
InitStream ==
    /\ env \in StreamEnvs
    /\ fs = InitFs
    /\ rateLimiterQps = PyNone
    /\ calls = [c \in CallIds |-> IdleCall]

NextStream ==
    \/ \E c \in CallIds, req \in StreamRequests : CallTool(c, req[1], req[2])
    \/ \E c \in CallIds, event \in StreamEvents :
           ConsumeEvent(c, event, MaxStreamEvents)
    \/ \E c \in CallIds : StreamRaise(c)
    \/ \E c \in CallIds, usage \in TokenUsages : StreamExhausted(c, usage)
    \/ \E c \in CallIds : Return(c)

SpecStream == InitStream /\ [][NextStream]_vars

\* ---------------------------------------- the path resolver on its own
\* at most MaxFiles of the files below exist at a time
MaxFiles == 3

\* names in composed, decomposed and mixed form, and a text file
ResolveFiles == {"/d/a.pdf", "/d/n.txt", "/d/caf@.pdf", "/d/cafe~.pdf",
                 "/d/@e~.pdf", "/d/@@.pdf", "/d/e~e~.pdf"}

Filesystems ==
    {[dirs |-> {"/", "/d"}, files |-> F] :
        F \in {S \in SUBSET ResolveFiles : Cardinality(S) <= MaxFiles}}

\* the arguments of the resolver: the files above, a mixed form that is never
\* stored, a directory, paths that never exist, and a value that is no str
ResolvePaths ==
    {PyStr(p) : p \in ResolveFiles}
    \cup {PyStr("/d/e~@.pdf"), PyStr("/d"), PyStr("/d/zz.pdf"), PyStr("/nodir/a.pdf"),
          PyStr("/d/n.txt/x.pdf"), PyInt("42")}

ResolverName == "resolve_path_with_unicode_normalization"

\* the frame of a resolver call after the outcome `out`: the returned path in
\* input_path, site "path" or "none", or the exception
Resolved(call, out) ==
    IF out.kind = "raise" THEN Escaped(call, out.v)
    ELSE IF out.kind = "none" THEN [call EXCEPT !.pc = "TERMINAL", !.site = "none"]
    ELSE [call EXCEPT !.pc = "TERMINAL", !.site = "path", !.input_path = out.v]

\* resolve_path_with_unicode_normalization(file_path)
Resolve(c, file_path) ==
    /\ c = 1
    /\ calls[c].pc = "idle"
    /\ \E out \in ResolveOutcomes(fs, file_path) :
           calls' = [calls EXCEPT ![c] =
                        Resolved([IdleCall EXCEPT !.name = ResolverName,
                                                  !.arguments.input_file = file_path],
                                 out)]
    /\ UNCHANGED <<env, fs, rateLimiterQps>>

\* the resolver is called again on str() of the path it returned; the first
\* path is kept in `result`
ResolveAgain(c) ==
    /\ calls[c].name = ResolverName
    /\ calls[c].site = "path"
    /\ calls[c].result = ""
    /\ \E out \in ResolveOutcomes(fs, PyStr(calls[c].input_path)) :
           calls' = [calls EXCEPT ![c] =
                        Resolved([calls[c] EXCEPT !.result = calls[c].input_path,
                                                  !.input_path = "", !.site = ""],
                                 out)]
    /\ UNCHANGED <<env, fs, rateLimiterQps>>

InitResolve ==
    /\ env = [var \in EnvVars |-> Absent]
    /\ fs \in Filesystems
    /\ rateLimiterQps = PyNone
    /\ calls = [c \in CallIds |-> IdleCall]

NextResolve ==
    \/ \E c \in CallIds, file_path \in ResolvePaths : Resolve(c, file_path)
    \/ \E c \in CallIds : ResolveAgain(c)
    \/ \E c \in CallIds : Return(c)

SpecResolve == InitResolve /\ [][NextResolve]_vars

\* ------------------------------------------- the status report on its own
\* the environments of SpecStatus: each API key unset, empty, or one of two
\* values
KeyValues(var) ==
    IF var = "OPENROUTER_API_KEY" THEN {PyStr("sk-or"), PyStr("sk-or-2")}
    ELSE {PyStr("sk-oa"), PyStr("sk-oa-2")}

KeyVars == {"OPENROUTER_API_KEY", "OPENAI_API_KEY"}

StatusEnvs ==
    [OPENROUTER_API_KEY : {Absent, PyStr("")} \cup KeyValues("OPENROUTER_API_KEY"),
     OPENROUTER_BASE_URL : EnvValues("OPENROUTER_BASE_URL"),
     OPENROUTER_MODEL : EnvValues("OPENROUTER_MODEL"),
     OPENAI_API_KEY : {Absent, PyStr("")} \cup KeyValues("OPENAI_API_KEY"),
     OPENAI_BASE_URL : EnvValues("OPENAI_BASE_URL"),
     OPENAI_MODEL : EnvValues("OPENAI_MODEL")]

StatusRequests ==
    {<<"get_translation_status", a>> :
        a \in {EmptyArgs, [EmptyArgs EXCEPT !.input_file = PyStr("/d/a.pdf")]}}

InitStatus ==
    /\ env \in StatusEnvs
    /\ fs = InitFs
    /\ rateLimiterQps = PyNone
    /\ calls = [c \in CallIds |-> IdleCall]

NextStatus ==
    \/ \E c \in CallIds, req \in StatusRequests : CallTool(c, req[1], req[2])
    \/ \E c \in CallIds : Return(c)
    \/ \E e \in StatusEnvs : SetEnv(e)

SpecStatus == InitStatus /\ [][NextStatus]_vars

\* ------------------------------------- streams with progress of any shape
\* progress_update events with all their keys and with none of them
ProgressShapes ==
    ProgressEvents \cup {[NoKeys EXCEPT !.type = "progress_update"]}

\* the events of SpecProgress
ProgressStreamEvents ==
    ProgressShapes \cup {ev \in Events : ev.type # "progress_update"}

NextProgress ==
    \/ \E c \in CallIds, req \in StreamRequests : CallTool(c, req[1], req[2])
    \/ \E c \in CallIds, event \in ProgressStreamEvents :
           ConsumeEvent(c, event, MaxStreamEvents)
    \/ \E c \in CallIds : StreamRaise(c)
    \/ \E c \in CallIds, usage \in TokenUsages : StreamExhausted(c, usage)
    \/ \E c \in CallIds : Return(c)

SpecProgress == InitStream /\ [][NextProgress]_vars

\* lines 395-410 as a whole: the accumulators are reset and the loop body runs
\* on each event of the sequence in turn
RECURSIVE ConsumeAll(_, _)
ConsumeAll(call, events) ==
    IF events = <<>> THEN call
    ELSE ConsumeAll(Consume(call, Head(events)), Tail(events))

FreshStream(call) ==
    [call EXCEPT !.progress_info = <<>>, !.translation_error = PyNone,
                 !.result_info = PyNone]

\* ------------------------------------------------- the output directory
\* output_dir: missing, empty, a directory that exists, directories to create,
\* a regular file, a path below a regular file
OutputDirs ==
    {Absent, PyStr(""), PyStr("/d"), PyStr("/out"), PyStr("/out/sub"),
     PyStr("/d/n.txt"), PyStr("/d/n.txt/sub")}

OutputRequests ==
    {<<"translate_pdf",
       [EmptyArgs EXCEPT !.input_file = f, !.output_dir = o, !.service = s]>> :
        f \in {PyStr("/d/a.pdf"), PyStr("/d/zz.pdf")},
        o \in OutputDirs,
        s \in {Absent, PyStr("bogus")}}
    \cup {<<name, [EmptyArgs EXCEPT !.output_dir = PyStr("/out")]>> :
             name \in {"get_translation_status", "translate"}}

\* no variable set, or the OpenRouter key
OutputEnvs ==
    {[var \in EnvVars |-> Absent],
     [var \in EnvVars |-> IF var = "OPENROUTER_API_KEY" THEN PyStr("sk-or") ELSE Absent]}

InitOutput ==
    /\ env \in OutputEnvs
    /\ fs = InitFs
    /\ rateLimiterQps = PyNone
    /\ calls = [c \in CallIds |-> IdleCall]

NextOutput ==
    \/ \E c \in CallIds, req \in OutputRequests : CallTool(c, req[1], req[2])
    \/ \E c \in CallIds, event \in Events : ConsumeEvent(c, event, MaxEvents)
    \/ \E c \in CallIds : StreamRaise(c)
    \/ \E c \in CallIds, usage \in TokenUsages : StreamExhausted(c, usage)
    \/ \E c \in CallIds : Return(c)

SpecOutput == InitOutput /\ [][NextOutput]_vars

\* --------------------------------------------------- two calls in flight
\* The host submits a call while another call may be suspended on its stream:
\* call_tool runs from its entry to its first suspension between two steps of
\* the other call.
Submit(c, name, arguments) ==
    /\ calls[c].pc = "idle"
    /\ \E out \in Dispatch(env, fs, rateLimiterQps,
                           [IdleCall EXCEPT !.name = name, !.arguments = arguments]) :
           /\ calls' = [calls EXCEPT ![c] = out.call]
           /\ fs' = out.fs
           /\ rateLimiterQps' = out.limiter
    /\ UNCHANGED env

PairRequests ==
    {<<"translate_pdf",
       [EmptyArgs EXCEPT !.input_file = PyStr("/d/a.pdf"), !.qps = q, !.lang_out = l]>> :
        q \in ArgValues("qps"), l \in ArgValues("lang_out")}

NextPair ==
    \/ \E c \in CallIds, req \in PairRequests : Submit(c, req[1], req[2])
    \/ \E c \in CallIds, event \in Events : ConsumeEvent(c, event, MaxEvents)
    \/ \E c \in CallIds : StreamRaise(c)
    \/ \E c \in CallIds, usage \in TokenUsages : StreamExhausted(c, usage)
    \/ \E c \in CallIds : Return(c)

SpecPair == InitStream /\ [][NextPair]_vars

\* ------------------------------------------------------------------ claims
Translate(call) == call.pc # "idle" /\ call.name = "translate_pdf"

\* the stream of the call was exhausted and lines 412-450 built the result
Exhausted(call) ==
    call.pc = "TERMINAL" /\ call.site \in {"engine_error", "success", "no_result"}

EventsOfType(call, type) == {i \in 1..Len(call.events) : call.events[i].type = type}

\* the last event of the given type the stream of the call yielded
LastEvent(call, type) ==
    call.events[CHOOSE i \in EventsOfType(call, type) :
                    \A j \in EventsOfType(call, type) : j <= i]

IsSuccessRecord(text) == Contains(text, "\"status\": \"success\"")

\* C1: every call to call_tool ends in one result, and on no failure path
\* does an exception leave the orchestration layer (call_tool, translate_pdf).
C1_NoExceptionEscapes == \A c \in CallIds : calls[c].pc # "RAISED"

\* C2: a stream that held at least one error event and is exhausted gives an
\* engine error, whatever the payloads and whether or not it held a finish
\* event; the message is the payload of the last error event.
C2_ErrorEventGivesEngineError ==
    \A c \in CallIds :
        LET call == calls[c]
        IN  (Exhausted(call) /\ EventsOfType(call, "error") # {}) =>
                LET last == LastEvent(call, "error")
                IN  /\ call.site = "engine_error"
                    /\ last.error.ty # "absent" =>
                           call.result = "Translation error: " \o Fmt(last.error)

\* the value of an argument, or the default when the key is missing
ArgOr(call, key, default) ==
    IF call.arguments[key].ty = "absent" THEN default ELSE call.arguments[key]

Passed(call, st) == \E i \in 1..Len(call.stages) : call.stages[i] = st

FinishNoError(call) ==
    /\ Exhausted(call)
    /\ EventsOfType(call, "finish") # {}
    /\ EventsOfType(call, "error") = {}

\* C3 as stated: a stream with a finish event and no error event gives a
\* success record, whatever the finish payload.
C3_AnyFinishGivesSuccess ==
    \A c \in CallIds :
        FinishNoError(calls[c]) =>
            calls[c].site = "success" /\ IsSuccessRecord(calls[c].result)

\* C3, amended: a stream with a finish event and no error event gives a
\* success record when the payload of its last finish event is non-empty: the
\* record embeds that payload, the resolved input path, the output directory,
\* the languages, the provider, the model and the three token counts. When the
\* payload is empty or missing the result is the fixed no-result text.
C3_FinishGivesSuccess ==
    \A c \in CallIds :
        LET call == calls[c]
            text == call.result
        IN  FinishNoError(call) =>
                LET payload == Get(LastEvent(call, "finish").translate_result)
                IN  IF Truthy(payload)
                    THEN /\ call.site = "success"
                         /\ IsSuccessRecord(text)
                         /\ Contains(text, "\"result\": " \o JsonValue(PyStr(Fmt(payload))))
                         /\ \E p \in fs.files :
                                /\ NFC(p) = NFC(call.arguments.input_file.v)
                                /\ Contains(text, "\"input_file\": " \o JsonValue(PyStr(p)))
                                /\ Contains(text, "\"output_dir\": "
                                       \o JsonValue(PyStr(PathParent(p))))
                         /\ Contains(text, "\"lang_in\": "
                                \o JsonValue(ArgOr(call, "lang_in", PyStr("en"))))
                         /\ Contains(text, "\"lang_out\": "
                                \o JsonValue(ArgOr(call, "lang_out", PyStr("zh"))))
                         /\ Contains(text, "\"service\": "
                                \o JsonValue(ArgOr(call, "service", PyStr("openrouter"))))
                         /\ Contains(text, "\"model\": \"")
                         /\ Contains(text, "\"token_usage\": {")
                         /\ Contains(text, "\"total_tokens\": ")
                         /\ Contains(text, "\"prompt_tokens\": ")
                         /\ Contains(text, "\"completion_tokens\": ")
                    ELSE call.site = "no_result" /\ text = NoResultText

\* two progress_update events, then finish(payload): a success record
C3_Witness ==
    \E c \in CallIds :
        /\ FinishNoError(calls[c])
        /\ Len(calls[c].events) = 3
        /\ Cardinality(EventsOfType(calls[c], "progress_update")) = 2
        /\ calls[c].events[3].translate_result = PyStr("res")
        /\ calls[c].site = "success"

NoErrorNoFinish(call) ==
    /\ Exhausted(call)
    /\ EventsOfType(call, "finish") = {}
    /\ EventsOfType(call, "error") = {}

\* C4 as stated: a stream exhausted without error and without finish is
\* reported with the fault tag `Translation failed:`.
C4_NoSignalIsTaggedFault ==
    \A c \in CallIds :
        NoErrorNoFinish(calls[c]) => StartsWith(calls[c].result, "Translation failed:")

\* C4, amended: a stream exhausted without error and without finish is
\* reported by the fixed text "Translation completed but no result information
\* available": it is no success record and it does not carry the fault tag.
C4_NoSignalIsNoResult ==
    \A c \in CallIds :
        NoErrorNoFinish(calls[c]) =>
            /\ calls[c].site = "no_result"
            /\ calls[c].result = NoResultText
            /\ ~IsSuccessRecord(calls[c].result)
            /\ ~StartsWith(calls[c].result, "Translation failed:")

\* a stream of progress_update events only, exhausted
C4_Witness ==
    \E c \in CallIds :
        /\ NoErrorNoFinish(calls[c])
        /\ Len(calls[c].events) >= 2
        /\ calls[c].result = NoResultText

ValidationSites ==
    {"missing_input", "not_found", "not_pdf", "missing_key", "unknown_service"}

Failed(call) ==
    /\ Translate(call)
    /\ call.pc = "TERMINAL"
    /\ call.site # "success"

\* no entry of the filesystem is canonically equivalent to the path
NoEquivalent(f, path) == \A q \in f.files \cup f.dirs : NFC(q) # NFC(path)

\* C5 as stated: every failure text of translate_pdf carries one of the three
\* tags `Validation error:`, `Translation error:`, `Translation failed:`.
C5_ThreeTags ==
    \A c \in CallIds :
        Failed(calls[c]) =>
            \/ StartsWith(calls[c].result, "Validation error:")
            \/ StartsWith(calls[c].result, "Translation error:")
            \/ StartsWith(calls[c].result, "Translation failed:")

\* C5, amended: every failure text of translate_pdf is one line; a validation
\* or configuration failure starts with `Error: `, an engine error with
\* `Translation error: `, a caught exception with `Translation failed: `, and a
\* stream without a signal gives the fixed no-result text. An input path that
\* names nothing on the filesystem gives `Error: File not found: ` followed by
\* the path as it was passed in.
C5_FailureTexts ==
    \A c \in CallIds :
        LET call == calls[c]
            input == call.arguments.input_file
        IN  Failed(call) =>
                /\ ~Contains(call.result, "\n")
                /\ call.site \in ValidationSites =>
                       /\ StartsWith(call.result, "Error: ")
                       /\ Len(call.result) > Len("Error: ")
                /\ call.site = "engine_error" => StartsWith(call.result, "Translation error: ")
                /\ call.site = "fault" =>
                       /\ StartsWith(call.result, "Translation failed: ")
                       /\ Len(call.result) > Len("Translation failed: ")
                /\ call.site = "no_result" => call.result = NoResultText
                /\ (input.ty = "str" /\ input.v # "" /\ NoEquivalent(fs, input.v)) =>
                       call.result = "Error: File not found: " \o input.v

\* a non-existent input path is reported as not found
C5_Witness ==
    \E c \in CallIds :
        /\ Failed(calls[c])
        /\ calls[c].arguments.input_file = PyStr("/d/zz.pdf")
        /\ calls[c].result = "Error: File not found: /d/zz.pdf"

\* a caught exception is reported with its tag
C5_WitnessFault ==
    \E c \in CallIds :
        /\ Failed(calls[c])
        /\ calls[c].site = "fault"
        /\ calls[c].result = "Translation failed: load_onnx raised"

SelectedService(call) == ArgOr(call, "service", PyStr("openrouter"))

KnownServices == {PyStr("openrouter"), PyStr("openai")}

\* the environment variable that holds the key of a provider
KeyVar(service) ==
    IF service = PyStr("openai") THEN "OPENAI_API_KEY" ELSE "OPENROUTER_API_KEY"

OtherKeyVar(service) ==
    IF service = PyStr("openai") THEN "OPENROUTER_API_KEY" ELSE "OPENAI_API_KEY"

\* C6: a call that ends in a validation or configuration error has made no
\* engine call (no init, translator, rate limiter, layout model, stream); the
\* engine is reached only with a known service whose own key is set; and a
\* call that names an unknown service ends in an error, never with a
\* fallback to another provider.
C6_ValidationBeforeEngine ==
    \A c \in CallIds :
        LET call == calls[c]
            service == SelectedService(call)
        IN  Translate(call) =>
                /\ call.site \in ValidationSites =>
                       call.pc = "TERMINAL" /\ call.engine = <<>> /\ call.events = <<>>
                /\ call.engine # <<>> =>
                       /\ service \in KnownServices
                       /\ Truthy(env[KeyVar(service)])
                       /\ Truthy(call.arguments.input_file)
                /\ service \notin KnownServices =>
                       /\ call.pc \in {"TERMINAL", "RAISED"}
                       /\ call.engine = <<>>
                       /\ call.pc = "TERMINAL" =>
                              /\ call.site \in ValidationSites
                              /\ StartsWith(call.result, "Error: ")
                       /\ Passed(call, "PATH_RESOLVED") => call.site = "unknown_service"

\* an unknown service with both provider keys set: an error, no engine call
C6_Witness ==
    \E c \in CallIds :
        /\ Translate(calls[c])
        /\ calls[c].arguments.service = PyStr("bogus")
        /\ Truthy(env["OPENROUTER_API_KEY"])
        /\ Truthy(env["OPENAI_API_KEY"])
        /\ calls[c].site = "unknown_service"
        /\ calls[c].engine = <<>>

\* C7: when the input file of a call has been resolved and the key of the
\* selected provider is missing or empty, the call ends with an error that names the environment variable of that provider and
\* not the one of the other provider, whether or not the other key is set; and
\* the key handed to the engine is the one of the selected provider.
C7_MissingKeyNamesItsVariable ==
    \A c \in CallIds :
        LET call == calls[c]
            service == SelectedService(call)
        IN  (Translate(call) /\ Passed(call, "PATH_RESOLVED")
                /\ service \in KnownServices) =>
                /\ ~Truthy(env[KeyVar(service)]) =>
                       /\ call.pc = "TERMINAL"
                       /\ call.site = "missing_key"
                       /\ call.result = "Error: " \o KeyVar(service)
                                            \o " environment variable not set"
                       /\ ~Contains(call.result, OtherKeyVar(service))
                       /\ call.engine = <<>>
                /\ Truthy(env[KeyVar(service)]) =>
                       /\ call.site # "missing_key"
                       /\ call.api_key = env[KeyVar(service)]

\* the default provider has no key while the other provider has one
C7_Witness ==
    \E c \in CallIds :
        /\ Translate(calls[c])
        /\ calls[c].arguments.service = Absent
        /\ ~Truthy(env["OPENROUTER_API_KEY"])
        /\ env["OPENAI_API_KEY"] = PyStr("sk-oa")
        /\ calls[c].result = "Error: OPENROUTER_API_KEY environment variable not set"

\* the value of an environment variable, or the default when it is not set
EnvOr(var, default) == IF env[var].ty = "absent" THEN default ELSE env[var]

EnvModel(service) ==
    IF service = PyStr("openai") THEN EnvOr("OPENAI_MODEL", DefaultOpenAIModel)
    ELSE EnvOr("OPENROUTER_MODEL", DefaultOpenRouterModel)

EnvBaseUrl(service) ==
    IF service = PyStr("openai") THEN EnvOr("OPENAI_BASE_URL", PyNone)
    ELSE EnvOr("OPENROUTER_BASE_URL", DefaultOpenRouterBaseUrl)

Configured(call) == Translate(call) /\ Passed(call, "CONFIG_RESOLVED")

\* C8 as stated: whenever the model argument is supplied it is the model of
\* the call, whatever the environment holds.
C8_SuppliedModelWins ==
    \A c \in CallIds :
        (Configured(calls[c]) /\ calls[c].arguments.model.ty # "absent") =>
            calls[c].model = calls[c].arguments.model

\* C8, amended: each field of the configuration of a call is a function of the
\* arguments of that call and the environment at that call: a non-empty model
\* argument wins over the environment variable of the provider, which wins
\* over the built-in default; an empty model argument counts as not supplied;
\* service, languages and qps are the argument or the built-in default; key
\* and base URL come from the environment. Nothing of an earlier call remains.
C8_ConfigPrecedence ==
    \A c \in CallIds :
        LET call == calls[c]
            service == SelectedService(call)
        IN  Configured(call) =>
                /\ call.service = service
                /\ call.lang_in = ArgOr(call, "lang_in", PyStr("en"))
                /\ call.lang_out = ArgOr(call, "lang_out", PyStr("zh"))
                /\ call.qps = ArgOr(call, "qps", PyInt("4"))
                /\ call.model = IF Truthy(call.arguments.model)
                                THEN call.arguments.model ELSE EnvModel(service)
                /\ call.base_url = EnvBaseUrl(service)
                /\ call.api_key = env[KeyVar(service)]

\* the model argument wins over the model of the environment
C8_Witness ==
    \E c \in CallIds :
        /\ Configured(calls[c])
        /\ calls[c].arguments.model = PyStr("m1")
        /\ env["OPENROUTER_MODEL"] = PyStr("env-or-model")
        /\ calls[c].model = PyStr("m1")

\* the model of the environment wins over the built-in default
C8_WitnessEnv ==
    \E c \in CallIds :
        /\ Configured(calls[c])
        /\ calls[c].arguments.model = Absent
        /\ calls[c].model = PyStr("env-or-model")

\* C9: a call with a name other than translate_pdf and get_translation_status
\* returns at once a text that names the tool; no file is resolved, no
\* configuration is read and no engine call is made.
C9_UnknownToolRejected ==
    \A c \in CallIds :
        LET call == calls[c]
        IN  (call.pc # "idle"
                /\ call.name \notin {"translate_pdf", "get_translation_status"}) =>
                /\ call.pc = "TERMINAL"
                /\ call.site = "unknown_tool"
                /\ call.result = "Unknown tool: " \o call.name
                /\ call.stages = <<"TERMINAL">>
                /\ call.input_path = ""
                /\ call.engine = <<>>
                /\ call.events = <<>>

\* an unknown name with the arguments of a translation
C9_Witness ==
    \E c \in CallIds :
        /\ calls[c].name = "translate"
        /\ calls[c].arguments.input_file = PyStr("/d/a.pdf")
        /\ calls[c].result = "Unknown tool: translate"

\* the call stopped between the first engine call and the stream
EngineFailed(call) ==
    /\ Passed(call, "CONFIG_RESOLVED")
    /\ ~Passed(call, "STREAMING")
    /\ call.pc \in {"TERMINAL", "RAISED"}

\* the call stopped in the stream before its end
StreamFailed(call) ==
    /\ Passed(call, "STREAMING")
    /\ call.pc \in {"TERMINAL", "RAISED"}
    /\ ~Exhausted(call)

\* C10: an exception raised by an engine call or by the stream is caught: the
\* call returns a text tagged `Translation failed: `, no exception leaves
\* translate_pdf once the engine has been entered, and the server goes on to
\* the next call.
C10_EngineExceptionsCaught ==
    \A c \in CallIds :
        LET call == calls[c]
        IN  /\ call.engine # <<>> => call.pc # "RAISED"
            /\ (EngineFailed(call) \/ StreamFailed(call)) =>
                   /\ call.pc = "TERMINAL"
                   /\ call.site = "fault"
                   /\ call.raised = ""
                   /\ StartsWith(call.result, "Translation failed: ")
                   /\ ENABLED Return(c)

\* engine initialisation raises
C10_Witness ==
    \E c \in CallIds :
        /\ EngineFailed(calls[c])
        /\ calls[c].engine = <<"init">>
        /\ calls[c].result = "Translation failed: init raised"

\* the stream raises after an event
C10_WitnessStream ==
    \E c \in CallIds :
        /\ StreamFailed(calls[c])
        /\ calls[c].events # <<>>
        /\ calls[c].result = "Translation failed: async_translate raised"

\* a first call of the resolver on a str has ended
ResolvedOnce(call) ==
    /\ call.name = ResolverName
    /\ call.pc # "idle"
    /\ call.result = ""
    /\ call.arguments.input_file.ty = "str"

\* q differs from the path at most by the normalization form of its name
SameUpToNameForm(q, path) ==
    /\ PathParent(q) = PathParent(path)
    /\ NFC(PathName(q)) = NFC(PathName(path))

\* C11: when a file exists whose path differs from the argument only by the
\* Unicode normalization form of its name, the resolver returns a path that
\* exists, in the same directory, with a name equivalent to the name asked
\* for; it does not answer None and does not raise.
C11_EquivalentNameIsFound ==
    \A c \in CallIds :
        LET call == calls[c]
            path == call.arguments.input_file.v
        IN  (ResolvedOnce(call) /\ \E q \in fs.files : SameUpToNameForm(q, path)) =>
                /\ call.pc = "TERMINAL"
                /\ call.site = "path"
                /\ PathExists(fs, call.input_path)
                /\ SameUpToNameForm(call.input_path, path)

\* a mixed-form name is found by the directory scan
C11_Witness ==
    \E c \in CallIds :
        /\ ResolvedOnce(calls[c])
        /\ calls[c].arguments.input_file = PyStr("/d/e~@.pdf")
        /\ calls[c].input_path = "/d/@e~.pdf"
        /\ "/d/@@.pdf" \notin fs.files
        /\ "/d/e~e~.pdf" \notin fs.files

\* nothing exists under the path, its NFC form or its NFD form, and no child
\* of its parent has an equivalent name
NothingToFind(f, path) ==
    /\ ~PathExists(f, path)
    /\ ~PathExists(f, NFC(path))
    /\ ~PathExists(f, NFD(path))
    /\ \A q \in f.files \cup f.dirs :
           (q # PathParent(path) /\ PathParent(q) = PathParent(path)) =>
               NFC(PathName(q)) # NFC(PathName(path))

\* C12: when nothing exists under the raw, NFC or NFD form of a path and no
\* child of its parent has an equivalent name, the resolver answers None;
\* and every path the resolver returns exists.
C12_NothingToFindIsNotFound ==
    \A c \in CallIds :
        LET call == calls[c]
        IN  ResolvedOnce(call) =>
                /\ NothingToFind(fs, call.arguments.input_file.v) =>
                       call.pc = "TERMINAL" /\ call.site = "none"
                /\ call.site = "path" => PathExists(fs, call.input_path)

\* C17: the resolver is first-match-wins and idempotent: a path that exists
\* as given is returned as given, whatever its siblings; else the NFC form
\* when it exists; else the NFD form when it exists; only else a child found
\* by the scan; and resolving the string of a returned path returns that
\* path again.
C17_FirstMatchWinsIdempotent ==
    \A c \in CallIds :
        LET call == calls[c]
            path == call.arguments.input_file.v
        IN  /\ ResolvedOnce(call) =>
                /\ PathExists(fs, path) =>
                       call.site = "path" /\ call.input_path = path
                /\ (~PathExists(fs, path) /\ PathExists(fs, NFC(path))) =>
                       call.site = "path" /\ call.input_path = NFC(path)
                /\ (~PathExists(fs, path) /\ ~PathExists(fs, NFC(path))
                        /\ PathExists(fs, NFD(path))) =>
                       call.site = "path" /\ call.input_path = NFD(path)
            /\ (call.name = ResolverName /\ call.result # "") =>
                /\ call.pc = "TERMINAL"
                /\ call.site = "path"
                /\ call.input_path = call.result

\* the path exists as given next to a sibling with an equivalent name
C17_Witness ==
    \E c \in CallIds :
        /\ ResolvedOnce(calls[c])
        /\ calls[c].arguments.input_file = PyStr("/d/cafe~.pdf")
        /\ {"/d/cafe~.pdf", "/d/caf@.pdf"} \subseteq fs.files
        /\ calls[c].input_path = "/d/cafe~.pdf"

\* both normalized forms of a mixed-form path exist: the NFC form is returned
C17_WitnessNfcBeforeNfd ==
    \E c \in CallIds :
        /\ ResolvedOnce(calls[c])
        /\ calls[c].arguments.input_file = PyStr("/d/@e~.pdf")
        /\ {"/d/@@.pdf", "/d/e~e~.pdf"} \subseteq fs.files
        /\ calls[c].input_path = "/d/@@.pdf"

\* a path found by the scan was resolved again
C17_WitnessAgain ==
    \E c \in CallIds :
        /\ calls[c].name = ResolverName
        /\ calls[c].arguments.input_file = PyStr("/d/e~@.pdf")
        /\ calls[c].result = "/d/@e~.pdf"
        /\ calls[c].input_path = "/d/@e~.pdf"

StatusDone(call) == call.name = "get_translation_status" /\ call.pc = "TERMINAL"

\* e2 differs from e1 at most in the values of API keys that are non-empty in
\* both
SameUpToKeyValues(e1, e2) ==
    \A var \in EnvVars :
        \/ e1[var] = e2[var]
        \/ var \in KeyVars /\ Truthy(e1[var]) /\ Truthy(e2[var])

\* C13: the status report gives openrouter_configured and openai_configured
\* as booleans, true exactly when the key variable is set and non-empty; no
\* key value occurs in the text, and the text is the same in every
\* environment that differs only in the values of non-empty keys; with no
\* variable set both flags are false; the language catalogue is the same
\* non-empty list in every report.
C13_StatusHidesKeys ==
    \A c \in CallIds :
        LET call == calls[c]
            text == call.result
        IN  StatusDone(call) =>
                /\ Contains(text, "\"openrouter_configured\": "
                       \o JsonBool(Truthy(env["OPENROUTER_API_KEY"])) \o ",")
                /\ Contains(text, "\"openai_configured\": "
                       \o JsonBool(Truthy(env["OPENAI_API_KEY"])) \o ",")
                /\ \A var \in KeyVars :
                       Truthy(env[var]) => ~Contains(text, env[var].v)
                /\ \A e2 \in StatusEnvs :
                       SameUpToKeyValues(env, e2) =>
                           get_translation_status(e2, [IdleCall EXCEPT
                               !.name = "get_translation_status"]).result = text
                /\ (\A var \in EnvVars : env[var] = Absent) =>
                       /\ Contains(text, "\"openrouter_configured\": false,")
                       /\ Contains(text, "\"openai_configured\": false,")
                /\ Len(SupportedLanguages) > 0
                /\ Contains(text, "\"supported_languages\": ["
                       \o JsonStringList(SupportedLanguages, 1) \o "\n  ]")

\* both keys are set: both flags are true
C13_Witness ==
    \E c \in CallIds :
        /\ StatusDone(calls[c])
        /\ env["OPENROUTER_API_KEY"] = PyStr("sk-or-2")
        /\ env["OPENAI_API_KEY"] = PyStr("sk-oa")
        /\ Contains(calls[c].result, "\"openrouter_configured\": true,")
        /\ Contains(calls[c].result, "\"openai_configured\": true,")

\* no variable is set: both flags are false
C13_WitnessUnset ==
    \E c \in CallIds :
        /\ StatusDone(calls[c])
        /\ \A var \in EnvVars : env[var] = Absent
        /\ Contains(calls[c].result, "\"openai_configured\": false,")

\* the value of translation_error after the events the call consumed
PendingError(call) ==
    IF EventsOfType(call, "error") = {} THEN PyNone
    ELSE GetOr(LastEvent(call, "error").error, PyStr("Unknown error"))

\* the value of result_info after the events the call consumed
PendingResult(call) ==
    IF EventsOfType(call, "finish") = {} THEN PyNone
    ELSE Get(LastEvent(call, "finish").translate_result)

\* every event consumed so far has acted, in order: the accumulators are
\* those of the last error and the last finish event, one progress line per
\* progress event
C14_Accumulated ==
    \A c \in CallIds :
        LET call == calls[c]
        IN  (Translate(call) /\ (call.pc = "STREAMING" \/ Exhausted(call))) =>
                /\ call.translation_error = PendingError(call)
                /\ call.result_info = PendingResult(call)
                /\ Len(call.progress_info)
                       = Cardinality(EventsOfType(call, "progress_update"))
                /\ call.engine[Len(call.engine)] = "async_translate"

\* a step of a streaming call either consumes one event, appended to those
\* consumed before, and goes on streaming whatever the event is, or it
\* returns without consuming an event
C14_Step ==
    \A c \in CallIds :
        calls[c].pc = "STREAMING" =>
            \/ calls'[c] = calls[c]
            \/ /\ calls'[c].pc = "STREAMING"
               /\ \E event \in StreamEvents :
                      calls'[c].events = Append(calls[c].events, event)
            \/ /\ calls'[c].pc = "TERMINAL"
               /\ calls'[c].events = calls[c].events

\* C14: the events of the stream are consumed in emission order and the
\* result is decided only when the stream is exhausted: no event makes
\* translate_pdf return, so an error or finish event does not stop the
\* consumption, and the events after it still decide the result.
C14_DrainedInOrder == []C14_Accumulated /\ [][C14_Step]_vars

\* an error event after a finish event decided the result
C14_Witness ==
    \E c \in CallIds :
        /\ Exhausted(calls[c])
        /\ Len(calls[c].events) = 2
        /\ calls[c].events[1].type = "finish"
        /\ calls[c].events[1].translate_result = PyStr("res")
        /\ calls[c].events[2].type = "error"
        /\ calls[c].site = "engine_error"
        /\ calls[c].result = "Translation error: boom"

NoProgress(events) == SelectSeq(events, LAMBDA ev : ev.type # "progress_update")

\* C16: progress_update events do not alter the result: whatever their
\* number, position and contents, the outcome and the text of a call are
\* those of the same call on the stream with the progress events removed
\* (with the same token counters), so two streams with the same error and
\* finish events give the same result.
C16_ProgressIsInert ==
    \A c \in CallIds :
        LET call == calls[c]
        IN  Exhausted(call) =>
                \E usage \in TokenUsages :
                    LET alone == Reduce(ConsumeAll(FreshStream(call),
                                                   NoProgress(call.events)), usage)
                    IN  /\ call.site = alone.site
                        /\ call.result = alone.result

\* progress events of two shapes around a finish event
C16_Witness ==
    \E c \in CallIds :
        /\ Exhausted(calls[c])
        /\ Len(calls[c].events) = 3
        /\ calls[c].events[1].type = "progress_update"
        /\ calls[c].events[2].type = "finish"
        /\ calls[c].events[3].type = "progress_update"
        /\ calls[c].events[1] # calls[c].events[3]
        /\ calls[c].site = "success"

\* the states of a job before TERMINAL, in order
StageOrder == <<"START", "PATH_RESOLVED", "CONFIG_RESOLVED", "ENGINE_INVOKED", "STREAMING">>

IsPrefix(s, t) == Len(s) <= Len(t) /\ SubSeq(t, 1, Len(s)) = s

\* the states the job of the call went through before TERMINAL
StagesBeforeTerminal(call) == SelectSeq(call.stages, LAMBDA st : st # "TERMINAL")

TimesTerminal(call) ==
    Cardinality({i \in 1..Len(call.stages) : call.stages[i] = "TERMINAL"})

\* The states of a job are entered in the order START, PATH_RESOLVED,
\* CONFIG_RESOLVED, ENGINE_INVOKED, STREAMING, none skipped and none repeated,
\* TERMINAL comes last and at most once, and the earliest defect decides: an
\* input that does not exist or is no PDF is reported whatever the service
\* and the keys are.
StagesInOrder ==
    \A c \in CallIds :
        LET call == calls[c]
            input == call.arguments.input_file
        IN  Translate(call) =>
                /\ Len(call.stages) >= 1
                /\ IsPrefix(StagesBeforeTerminal(call), StageOrder)
                /\ TimesTerminal(call) <= 1
                /\ TimesTerminal(call) = 1 <=> call.stages[Len(call.stages)] = "TERMINAL"
                /\ TimesTerminal(call) = 1 <=> call.pc = "TERMINAL"
                /\ call.pc = "TERMINAL" => call.site # ""
                /\ (call.pc = "TERMINAL" /\ input.ty = "str" /\ input.v # ""
                        /\ NoEquivalent(fs, input.v)) =>
                       call.site = "not_found" /\ call.stages = <<"START", "TERMINAL">>
                /\ (call.pc = "TERMINAL" /\ input = PyStr("/d/n.txt")) =>
                       call.site = "not_pdf" /\ call.stages = <<"START", "TERMINAL">>

\* C15: the states of a job are entered only in the order START,
\* PATH_RESOLVED, CONFIG_RESOLVED, ENGINE_INVOKED, STREAMING, TERMINAL, none
\* skipped forward and none repeated; every call that has ended entered
\* TERMINAL exactly once, with one outcome; the earliest defect decides.
C15_OneTerminalInOrder ==
    /\ StagesInOrder
    /\ \A c \in CallIds :
           (Translate(calls[c]) /\ calls[c].pc # "STREAMING") =>
               TimesTerminal(calls[c]) = 1 /\ calls[c].site # ""

\* the engine call `step` was made in the call
Made(call, step) == \E i \in 1..Len(call.engine) : call.engine[i] = step

\* the output directory of a call: the argument, or the parent of the
\* resolved input when the argument is missing or empty
OutputDirOf(call) ==
    IF Truthy(call.arguments.output_dir) THEN call.arguments.output_dir.v
    ELSE PathParent(call.input_path)

\* C18: in a call that starts the translation stream, the output directory
\* (the output_dir argument, or the parent of the resolved input when the
\* argument is missing or empty) exists with all its ancestors, created
\* before the stream is started; when it cannot be created, because it or an
\* ancestor is a regular file, the call ends with `Translation failed: ` and
\* the stream is not started.
C18_OutputDirBeforeStream ==
    \A c \in CallIds :
        LET call == calls[c]
            dir == OutputDirOf(call)
        IN  (Translate(call) /\ Passed(call, "CONFIG_RESOLVED")) =>
                /\ call.output_dir = PyStr(dir)
                /\ Made(call, "async_translate") =>
                       /\ \A p \in Ancestors(dir) : IsDir(fs, p)
                       /\ Passed(call, "ENGINE_INVOKED")
                       /\ \E i, j \in 1..Len(call.engine) :
                              /\ i < j
                              /\ call.engine[i] = "mkdir"
                              /\ call.engine[j] = "async_translate"
                /\ (\E p \in Ancestors(dir) : p \in fs.files) =>
                       /\ call.pc = "TERMINAL"
                       /\ call.site = "fault"
                       /\ StartsWith(call.result, "Translation failed: ")
                       /\ ~Made(call, "async_translate")

\* a directory and its parent were created before the stream
C18_Witness ==
    \E c \in CallIds :
        /\ Translate(calls[c])
        /\ calls[c].arguments.output_dir = PyStr("/out/sub")
        /\ Made(calls[c], "async_translate")
        /\ {"/out", "/out/sub"} \subseteq fs.dirs

\* the output directory is a regular file: mkdir raises
C18_WitnessFile ==
    \E c \in CallIds :
        /\ Translate(calls[c])
        /\ calls[c].arguments.output_dir = PyStr("/d/n.txt")
        /\ calls[c].result = "Translation failed: mkdir raised"

\* a step changes the filesystem only by creating the output directory of a
\* call and its missing ancestors, in a call whose path and configuration
\* were resolved and that reached mkdir; every other step leaves it as it is
C20_Step ==
    /\ fs' # fs =>
           /\ fs'.files = fs.files
           /\ \E c \in CallIds :
                  /\ calls[c].pc = "idle"
                  /\ Translate(calls'[c])
                  /\ Passed(calls'[c], "PATH_RESOLVED")
                  /\ Passed(calls'[c], "CONFIG_RESOLVED")
                  /\ Made(calls'[c], "mkdir")
                  /\ fs'.dirs = fs.dirs \cup Ancestors(OutputDirOf(calls'[c]))
    /\ \A c \in CallIds :
           (calls'[c] # calls[c] /\ ~Made(calls'[c], "mkdir")) => fs' = fs

\* C20: a call that ends before the output-directory step (a validation or
\* configuration error, an unknown tool, get_translation_status, a fault in
\* engine init, translator construction or layout-model load) leaves the
\* filesystem unchanged; the only change the server makes is the creation of
\* the output directory, after path and configuration were resolved.
C20_OnlyOutputDirCreated == [][C20_Step]_vars

\* the layout model fails to load: the output directory asked for is not made
C20_Witness ==
    \E c \in CallIds :
        /\ Translate(calls[c])
        /\ calls[c].arguments.output_dir = PyStr("/out")
        /\ calls[c].result = "Translation failed: load_onnx raised"
        /\ "/out" \notin fs.dirs

\* an unknown service with an output directory to create
C20_WitnessValidation ==
    \E c \in CallIds :
        /\ Translate(calls[c])
        /\ calls[c].arguments.output_dir = PyStr("/out")
        /\ calls[c].site = "unknown_service"
        /\ "/out" \notin fs.dirs

\* the locals of each call in flight are those its own arguments and the
\* environment give, whatever the other call does
PairConfigIsolated ==
    \A c \in CallIds :
        LET call == calls[c]
            service == SelectedService(call)
        IN  Configured(call) =>
                /\ call.service = service
                /\ call.lang_in = ArgOr(call, "lang_in", PyStr("en"))
                /\ call.lang_out = ArgOr(call, "lang_out", PyStr("zh"))
                /\ call.qps = ArgOr(call, "qps", PyInt("4"))
                /\ call.model = IF Truthy(call.arguments.model)
                                THEN call.arguments.model ELSE EnvModel(service)
                /\ call.base_url = EnvBaseUrl(service)
                /\ call.api_key = env[KeyVar(service)]

\* C19: when two translate_pdf calls interleave at the suspension points of
\* their streams, the configuration of each is that of its own arguments and
\* environment, and no value set by one call is overwritten by the other: as
\* long as a call is streaming, the rate limiter holds the qps that call set.
C19_CallsAreIsolated ==
    /\ PairConfigIsolated
    /\ \A c \in CallIds :
           (Translate(calls[c]) /\ calls[c].pc = "STREAMING") =>
               rateLimiterQps = calls[c].qps

====
